---- MODULE Spec2Model ----
(***************************************************************************)
(* The two tool adapters of the chat server: weatherTool.execute           *)
(* (lib/tools/weather.ts) and analyzeTool.execute (lib/tools/analyze.ts),  *)
(* run by one Node.js server process.                                      *)
(*                                                                         *)
(* Texts whose content the code inspects (header values, bodies, captured  *)
(* output, error messages) are sequences of tokens, so that includes,      *)
(* trim, slice and JSON.parse are computed; texts the code only builds     *)
(* from literals are sequences holding the literal pieces.                 *)
(***************************************************************************)
EXTENDS Integers, Sequences, FiniteSets, TLC

\* ------------------------------------------------------------------ bounds

\* Invocation slots of the server process (concurrent tool calls).
NumInv == 2
\* Longest date array the upstream returns.
MaxDays == 2
\* How far the longest error body exceeds the 1000-character excerpt.
BodyOverrun == 1

\* ------------------------------------------------------- program constants

SLICE_LIMIT == 1000
PYTHON_MAX_BUFFER == 1048576

Inv == 1..NumInv

\* A value that is null or undefined in the program.
Null == <<"<null>">>

Coalesce(x, d) == IF x = Null THEN d ELSE x

Min(a, b) == IF a < b THEN a ELSE b

\* --------------------------------------------------------- text operations

\* String.prototype.includes, on token sequences: some token is the needle.
Includes(text, needle) == \E k \in 1..Len(text) : text[k] = needle

Whitespace == {" ", "\n", "\t"}

RECURSIVE TrimStart(_)
TrimStart(s) ==
    IF s # <<>> /\ Head(s) \in Whitespace THEN TrimStart(Tail(s)) ELSE s

RECURSIVE TrimEnd(_)
TrimEnd(s) ==
    IF s # <<>> /\ s[Len(s)] \in Whitespace
    THEN TrimEnd(SubSeq(s, 1, Len(s) - 1))
    ELSE s

\* String.prototype.trim
Trim(s) == TrimEnd(TrimStart(s))

\* String.prototype.slice(0, n)
Slice(s, n) == SubSeq(s, 1, Min(Len(s), n))

\* String.prototype.toLowerCase, token by token.
LowerToken(t) ==
    CASE t = "maxBuffer" -> "maxbuffer"
      [] t = "JSON" -> "json"
      [] OTHER -> t

ToLowerCase(s) == [k \in 1..Len(s) |-> LowerToken(s[k])]

\* ---------------------------------------------------------------- JSON

\* A JSON-like value is a record [t, v]; this one is JavaScript's undefined.
Undefined == [t |-> "undefined", v |-> <<>>]

Digits == {"0", "1", "7"}

IsNumberText(s) ==
    /\ s # <<>>
    /\ \A k \in 1..Len(s) : s[k] \in Digits
    /\ (Len(s) > 1 => s[1] # "0")

\* JSON.parse of a body text over the sublanguage: number | [] | [number].
\* ok = FALSE is a SyntaxError.
ParseJSON(s) ==
    IF IsNumberText(s)
    THEN [ok |-> TRUE, value |-> [t |-> "num", v |-> s]]
    ELSE IF Len(s) >= 2 /\ s[1] = "[" /\ s[Len(s)] = "]"
    THEN LET inner == SubSeq(s, 2, Len(s) - 1) IN
         IF inner = <<>>
         THEN [ok |-> TRUE, value |-> [t |-> "arr", v |-> <<>>]]
         ELSE IF IsNumberText(inner)
         THEN [ok |-> TRUE, value |-> [t |-> "arr", v |-> inner]]
         ELSE [ok |-> FALSE, value |-> Undefined]
    ELSE [ok |-> FALSE, value |-> Undefined]

\* ------------------------------------------------ weather tool: the inputs

DEFAULT_FORECAST_DAYS == 3

\* Upstream names of the daily variables, in the order of requiredArrays.
Fields ==
    << "temperature_2m_max", "temperature_2m_min", "precipitation_sum",
       "windspeed_10m_max", "weathercode" >>

FieldSet == {Fields[k] : k \in 1..Len(Fields)}

\* The tool arguments the language model supplies, as the schema accepts them.
\* days = 0 stands for an omitted forecastDays; daily is a key the schema does
\* not declare (the variables the caller wants).
WeatherArgs ==
    [ latitude : {35}, longitude : {139}, days : {0, 2},
      daily : {FieldSet, {"temperature_2m_max"}} ]

\* z.object(...).parse: declared keys only, forecastDays defaulted.
ParseWeatherParams(args) ==
    [ latitude |-> args.latitude,
      longitude |-> args.longitude,
      forecastDays |-> IF args.days = 0 THEN DEFAULT_FORECAST_DAYS ELSE args.days ]

\* The URL's search parameters.
BuildUrl(p) ==
    [ latitude |-> ToString(p.latitude),
      longitude |-> ToString(p.longitude),
      daily |-> Fields,
      forecast_days |-> ToString(p.forecastDays),
      timezone |-> "auto" ]

\* Values a rejected promise carries.
TimeoutError ==
    [ isObject |-> TRUE, name |-> "TimeoutError", isError |-> TRUE,
      message |-> "The operation was aborted due to timeout" ]
AbortError ==
    [ isObject |-> TRUE, name |-> "AbortError", isError |-> TRUE,
      message |-> "This operation was aborted" ]
NetworkError ==
    [ isObject |-> TRUE, name |-> "TypeError", isError |-> TRUE,
      message |-> "fetch failed" ]
SyntaxError ==
    [ isObject |-> TRUE, name |-> "SyntaxError", isError |-> TRUE,
      message |-> "Unexpected token < in JSON at position 0" ]
ThrownString ==
    [ isObject |-> FALSE, name |-> "", isError |-> FALSE, message |-> "" ]
NoError ==
    [ isObject |-> FALSE, name |-> "", isError |-> FALSE, message |-> "-" ]

\* What the AbortSignal.timeout signal rejects the fetch (or the body read)
\* with: the signal's reason, a TimeoutError, or on runtimes whose fetch
\* ignores the reason an AbortError.
DeadlineErrors == {TimeoutError, AbortError}

\* An item of an upstream array: a date string (its day number), a number or null.
DateItem(i) == [ty |-> "string", v |-> i]
NumItem(n) == [ty |-> "number", v |-> n]

FieldBase(f) ==
    CASE f = "temperature_2m_max" -> 100
      [] f = "temperature_2m_min" -> 200
      [] f = "precipitation_sum" -> 300
      [] f = "windspeed_10m_max" -> 400
      [] f = "weathercode" -> 500

Absent == [t |-> "absent", items |-> <<>>]
Scalar == [t |-> "scalar", items |-> <<>>]
VarArray(f, n) == [t |-> "arr", items |-> [i \in 1..n |-> NumItem(FieldBase(f) + i)]]
DateArray(n) == [t |-> "arr", items |-> [i \in 1..n |-> DateItem(i)]]
\* A date array whose last element is not a string.
MixedDateArray(n) ==
    [t |-> "arr", items |-> [i \in 1..n |-> IF i = n THEN NumItem(i) ELSE DateItem(i)]]

\* data.daily of a 2xx body: n dates and, for the fields in bad, a wrong array.
DailyOf(n, time, bad, shapeOf) ==
    [f \in FieldSet \cup {"time"} |->
        IF f = "time" THEN time
        ELSE IF f \in bad THEN shapeOf[f]
        ELSE VarArray(f, n)]

BadKinds == {"absent", "scalar", "long", "short"}

ShapeOfKind(kind, f, n) ==
    CASE kind = "absent" -> Absent
      [] kind = "scalar" -> Scalar
      [] kind = "long" -> VarArray(f, n + 1)
      [] kind = "short" -> IF n > 0 THEN VarArray(f, n - 1) ELSE Absent

Dailies ==
    { DailyOf(n, DateArray(n), bad, [f \in FieldSet |-> ShapeOfKind(kind, f, n)]) :
        n \in 0..MaxDays, bad \in SUBSET FieldSet, kind \in BadKinds }
    \cup { DailyOf(n, time, {}, [f \in FieldSet |-> Absent]) :
        n \in 1..MaxDays, time \in {Absent, Scalar} }
    \cup { DailyOf(n, MixedDateArray(n), {}, [f \in FieldSet |-> Absent]) :
        n \in 1..MaxDays }

NoDaily == [f \in FieldSet \cup {"time"} |-> Absent]

\* Header values and bodies of a non-2xx response.
ContentTypes ==
    { <<"application", "/", "json">>,
      <<"application", "/", "problem", "+", "json", ";", " ", "charset", "=", "utf-8">>,
      <<"application", "/", "JSON">>,
      <<"text", "/", "html">>,
      Null }

LongText(c) == [k \in 1..(SLICE_LIMIT + BodyOverrun) |-> c]

ErrorBodies ==
    { <<>>, <<"7">>, <<"0", "7">>, <<"[", "1", "7", "]">>, <<"[", "]">>,
      <<"<", "h", "1", ">">>, LongText("x"), LongText("7") }

ErrorStatuses ==
    { [status |-> 404, statusText |-> "Not Found"],
      [status |-> 503, statusText |-> ""] }

UpRecord(kind, err, st, ct, text, readFails, jsonErr, hasDaily, daily) ==
    [ kind |-> kind, err |-> err, status |-> st.status, statusText |-> st.statusText,
      contentType |-> ct, text |-> text, readFails |-> readFails,
      jsonErr |-> jsonErr, hasDaily |-> hasDaily, daily |-> daily ]

NoStatus == [status |-> 0, statusText |-> ""]
OkStatus == [status |-> 200, statusText |-> "OK"]
JsonType == <<"application", "/", "json">>

\* Everything the outbound request can end in: the fetch rejects (deadline,
\* network failure, a thrown non-Error); a non-2xx response whose body can or
\* cannot be read; a 2xx response whose json() rejects or yields data.
Upstreams ==
    { UpRecord("reject", e, NoStatus, Null, <<>>, FALSE, NoError, FALSE, NoDaily) :
        e \in DeadlineErrors \cup {NetworkError, ThrownString} }
    \cup { UpRecord("response", NoError, st, ct, text, FALSE, NoError, FALSE, NoDaily) :
        st \in ErrorStatuses, ct \in ContentTypes, text \in ErrorBodies }
    \cup { UpRecord("response", NoError, st, ct, <<>>, TRUE, NoError, FALSE, NoDaily) :
        st \in ErrorStatuses, ct \in ContentTypes }
    \cup { UpRecord("response", NoError, OkStatus, JsonType, <<>>, FALSE, e, FALSE, NoDaily) :
        e \in DeadlineErrors \cup {NetworkError, SyntaxError} }
    \cup { UpRecord("response", NoError, OkStatus, JsonType, <<>>, FALSE, NoError, FALSE, NoDaily) }
    \cup { UpRecord("response", NoError, OkStatus, JsonType, <<>>, FALSE, NoError, TRUE, d) :
        d \in Dailies }

\* ------------------------------------------------- weather tool: execute

Returns(v) == [threw |-> FALSE, value |-> v, err |-> NoError]
Throws(e) == [threw |-> TRUE, value |-> [thrown |-> TRUE], err |-> e]

\* response.ok
ResponseOk(up) == up.status >= 200 /\ up.status <= 299

TIMEOUT_MESSAGE == "Weather data request timed out. Please try again in a moment."
FORMAT_MESSAGE == "Invalid response format from Open-Meteo API"

\* Mutant: the text excerpt is not cut.
ErrorBody_Untruncated(up) ==
    LET contentType == Coalesce(up.contentType, <<>>)
        parsed == ParseJSON(up.text)
    IN  IF Includes(contentType, "json") /\ ~up.readFails /\ parsed.ok
        THEN parsed.value
        ELSE IF up.readFails \/ up.text = <<>> THEN Undefined
        ELSE [t |-> "text", v |-> up.text]

\* The best-effort excerpt of a non-2xx body.
ErrorBody(up) ==
    LET contentType == Coalesce(up.contentType, <<>>)
        parsed == ParseJSON(up.text)
        fromJson ==
            IF Includes(contentType, "json") /\ ~up.readFails /\ parsed.ok
            THEN parsed.value
            ELSE Undefined
    IN  IF fromJson # Undefined THEN fromJson
        ELSE IF up.readFails THEN Undefined
        ELSE IF up.text # <<>> THEN [t |-> "text", v |-> Slice(up.text, SLICE_LIMIT)]
        ELSE Undefined

HttpErrorResult(up) ==
    [ error |-> "Weather API request failed: " \o ToString(up.status)
                \o (IF up.statusText # "" THEN " " \o up.statusText ELSE ""),
      status |-> up.status,
      statusText |-> up.statusText,
      details |-> ErrorBody(up) ]

\* !Array.isArray(time) || !time.every(value => typeof value === "string")
TimeInvalid(time) ==
    \/ time.t # "arr"
    \/ \E k \in 1..Len(time.items) : time.items[k].ty # "string"

\* Mutant: the length test accepts an array longer than the date array.
Misaligned_LengthLess(values, time) ==
    values.t # "arr" \/ Len(values.items) < Len(time.items)

\* !Array.isArray(values) || values.length !== time.length
Misaligned(values, time) ==
    values.t # "arr" \/ Len(values.items) # Len(time.items)

\* The entries of requiredArrays that fail the check, by position.
MisalignedAt(daily) ==
    {k \in 1..Len(Fields) : Misaligned(daily[Fields[k]], daily["time"])}

\* The loop over requiredArrays returns at the first failing entry.
FirstMisaligned(daily) ==
    CHOOSE k \in MisalignedAt(daily) : \A j \in MisalignedAt(daily) : k <= j

MisalignedResult(label) ==
    [ error |-> FORMAT_MESSAGE \o " (" \o label \o " missing or misaligned)" ]

ForecastOf(daily) ==
    [ i \in 1..Len(daily["time"].items) |->
        [ date |-> daily["time"].items[i],
          temperature_max |-> daily["temperature_2m_max"].items[i],
          temperature_min |-> daily["temperature_2m_min"].items[i],
          precipitation |-> daily["precipitation_sum"].items[i],
          windspeed_max |-> daily["windspeed_10m_max"].items[i],
          weathercode |-> daily["weathercode"].items[i] ] ]

\* The body of the try block: the completion it ends in.
WeatherTry(p, up) ==
    IF up.kind = "reject" THEN Throws(up.err)
    ELSE IF ~ResponseOk(up) THEN Returns(HttpErrorResult(up))
    ELSE IF up.jsonErr # NoError THEN Throws(up.jsonErr)
    ELSE LET daily == IF up.hasDaily THEN up.daily ELSE NoDaily IN
         IF TimeInvalid(daily["time"]) THEN Returns([error |-> FORMAT_MESSAGE])
         ELSE IF MisalignedAt(daily) # {}
         THEN Returns(MisalignedResult("daily." \o Fields[FirstMisaligned(daily)]))
         ELSE Returns([ latitude |-> p.latitude,
                        longitude |-> p.longitude,
                        forecast_days |-> p.forecastDays,
                        forecast |-> ForecastOf(daily) ])

\* Mutant: a caught value that is no Error is thrown on.
WeatherCatch_Rethrow(err) ==
    IF err.isObject /\ err.name = "AbortError"
    THEN Returns([error |-> TIMEOUT_MESSAGE])
    ELSE IF err.isError
    THEN Returns([error |-> "Network or runtime error: " \o err.message])
    ELSE Throws(err)

\* The catch block.
WeatherCatch(err) ==
    IF err.isObject /\ err.name = "AbortError"
    THEN Returns([error |-> TIMEOUT_MESSAGE])
    ELSE Returns([error |->
            IF err.isError
            THEN "Network or runtime error: " \o err.message
            ELSE "Unknown error occurred while fetching weather data"])

WeatherExecute(args, up) ==
    LET done == WeatherTry(ParseWeatherParams(args), up)
    IN  IF done.threw THEN WeatherCatch(done.err) ELSE done

\* ---------------------------------------------- code runner: the inputs

HelloCode == "print(\"hello\")"
\* A program that ignores SIGTERM and never exits.
TrapCode == "signal.signal(signal.SIGTERM, signal.SIG_IGN)\nwhile True: pass"
OtherCode == "import sys; ..."

Codes == {HelloCode, TrapCode, OtherCode}

AnalyzeArgs == [code : Codes]

\* result.status of a process that ended without an exit status.
NullStatus == -1

\* result.signal of a process no signal ended.
NullSignal == "<null>"

Hello == <<"hello", "\n">>

NoErr == [set |-> FALSE, code |-> "", message |-> <<>>]
SpawnErr(code) ==
    [set |-> TRUE, code |-> code, message |-> <<"spawnSync", " ", "python3", " ", code>>]
\* The buffer overflow as the asynchronous API reports it.
MaxBufferErr ==
    [ set |-> TRUE, code |-> "ERR_CHILD_PROCESS_STDIO_MAXBUFFER",
      message |-> <<"stdout", " ", "maxBuffer", " ", "length", " ", "exceeded">> ]
\* An error object without a code.
PlainErr == [set |-> TRUE, code |-> "", message |-> <<"spawn", " ", "failed">>]

SpawnRecord(threw, thrown, error, status, signal, stdout, stderr) ==
    [ threw |-> threw, thrown |-> thrown, error |-> error, status |-> status,
      signal |-> signal, stdout |-> stdout, stderr |-> stderr ]

ExitStatuses == {0, 1, 2, 124, 126, 127, 128}

Stderrs ==
    { <<>>, <<"\n">>, <<"Traceback", "\n">>, <<" ", "Killed">>, <<"Killed">> }

\* The process could not be started, whatever the program: spawnSync throws,
\* or returns with result.error set and no output.
LaunchFailures ==
    { SpawnRecord(TRUE, e, NoErr, NullStatus, NullSignal, Null, Null) :
        e \in {NetworkError, ThrownString} }
    \cup { SpawnRecord(FALSE, NoError, e, NullStatus, NullSignal, Null, Null) :
        e \in {SpawnErr("ENOENT"), SpawnErr("EACCES"), SpawnErr("EAGAIN"), PlainErr} }

\* A process that exits on its own with an exit status.
Exits ==
    { SpawnRecord(FALSE, NoError, NoErr, st, NullSignal, out, err) :
        st \in ExitStatuses, out \in {<<>>, Hello}, err \in {<<>>, <<"Traceback", "\n">>} }

\* A process ended by a signal it did not ask the runner for.
Signalled ==
    { SpawnRecord(FALSE, NoError, NoErr, NullStatus, sig, out, err) :
        sig \in {"SIGKILL", "SIGSEGV"}, out \in {<<>>, Hello}, err \in Stderrs }

\* The deadline passed: the runner sent SIGTERM and the process ended, either
\* by the signal (no exit status) or by handling it and exiting.
TimedOut ==
    { SpawnRecord(FALSE, NoError, SpawnErr("ETIMEDOUT"), st, "SIGTERM", out, <<>>) :
        st \in {NullStatus, 0}, out \in {<<>>, Hello} }

\* The output passed maxBuffer: the runner ended the process and reports
\* ENOBUFS (spawnSync) with the output captured so far.
Overflowed ==
    { SpawnRecord(FALSE, NoError, e, NullStatus, "SIGTERM", Hello, <<>>) :
        e \in {SpawnErr("ENOBUFS"), MaxBufferErr} }

\* What spawnSync can return for a program. A program that ignores SIGTERM
\* and never exits gives nothing to return once it runs.
SpawnOutcomes(code) ==
    LaunchFailures \cup
    (CASE code = HelloCode ->
            {SpawnRecord(FALSE, NoError, NoErr, 0, NullSignal, Hello, <<>>)}
       [] code = TrapCode -> {}
       [] OTHER -> Exits \cup Signalled \cup TimedOut \cup Overflowed)

\* --------------------------------------------------- code runner: execute

ExecResult(stdout, stderr, exitCode) ==
    [stdout |-> stdout, stderr |-> stderr, exitCode |-> exitCode]

\* The result.error branch. (The backquotes around python3 in the source's
\* message are written as quotes here.)
ClassifyLaunchError(result) ==
    LET err == result.error IN
    IF err.code = "ETIMEDOUT"
    THEN ExecResult(<<>>, <<"Python execution timed out">>, 124)
    ELSE IF err.code = "ENOENT"
    THEN ExecResult(<<>>,
            <<"Python interpreter not found (python3). Install Python 3 and ensure 'python3' is on your PATH.">>,
            127)
    ELSE IF err.code = "EACCES"
    THEN ExecResult(<<>>,
            <<"Permission denied when trying to run python3. Check file permissions or your environment setup.">>,
            126)
    ELSE IF \/ err.code = "ERR_CHILD_PROCESS_STDIO_MAXBUFFER"
            \/ Includes(ToLowerCase(err.message), "maxbuffer")
    THEN ExecResult(Coalesce(result.stdout, <<>>),
            <<"Python output exceeded maxBuffer (", ToString(PYTHON_MAX_BUFFER), " bytes)">>,
            1)
    ELSE ExecResult(<<>>,
            IF err.code # "" THEN <<err.code, ": ">> \o err.message ELSE err.message,
            1)

\* Mutant: the captured stderr is used as it is.
ClassifySignal_Untrimmed(result) ==
    LET captured == Coalesce(result.stderr, <<>>) IN
    ExecResult(Coalesce(result.stdout, <<>>),
        IF captured # <<>> THEN captured
        ELSE <<"Python process terminated by signal ",
               IF result.signal = NullSignal THEN "unknown" ELSE result.signal>>,
        128)

\* The result.status === null branch.
ClassifySignal(result) ==
    LET trimmed == IF result.stderr = Null THEN <<>> ELSE Trim(result.stderr) IN
    ExecResult(Coalesce(result.stdout, <<>>),
        IF trimmed # <<>> THEN trimmed
        ELSE <<"Python process terminated by signal ", IF result.signal = NullSignal THEN "unknown" ELSE result.signal>>,
        128)

\* The normal return.
ClassifyExit(result) ==
    ExecResult(Coalesce(result.stdout, <<>>), Coalesce(result.stderr, <<>>), result.status)

\* Mutant: the signal test is !result.status, which exit status 0 passes too.
AnalyzeTry_FalsyStatus(result) ==
    IF result.threw THEN Throws(result.thrown)
    ELSE IF result.error.set THEN Returns(ClassifyLaunchError(result))
    ELSE IF result.status = NullStatus \/ result.status = 0
    THEN Returns(ClassifySignal(result))
    ELSE Returns(ClassifyExit(result))

\* The body of the try block, from the value spawnSync returned.
AnalyzeTry(result) ==
    IF result.threw THEN Throws(result.thrown)
    ELSE IF result.error.set THEN Returns(ClassifyLaunchError(result))
    ELSE IF result.status = NullStatus THEN Returns(ClassifySignal(result))
    ELSE Returns(ClassifyExit(result))

\* The catch block.
AnalyzeCatch(err) ==
    Returns(ExecResult(<<>>,
        IF err.isError
        THEN <<"Unexpected error: ", err.message>>
        ELSE <<"Unknown error occurred while executing Python code">>,
        1))

AnalyzeExecute(result) ==
    LET done == AnalyzeTry(result)
    IN  IF done.threw THEN AnalyzeCatch(done.err) ELSE done

\* ------------------------------------------------------ the server process

VARIABLES
    phase,      \* per invocation: Idle, InFlight, Success, ErrorResult, Thrown
    tool,       \* per invocation: the tool called
    args,       \* per invocation in flight: the arguments execute was called with
    attempts,   \* per invocation: outbound attempts made (fetches, spawns)
    child,      \* per invocation: its subprocess (none, running, stuck)
    blockedBy,  \* the invocations whose spawnSync holds the thread (none or one)
    returned    \* the completion execute has just ended in, until the caller takes it

vars == <<phase, tool, args, attempts, child, blockedBy, returned>>

NoArgs == [none |-> TRUE]

Terminal == {"Success", "ErrorResult", "Thrown"}

\* The state an invocation ends in, from the completion of execute.
TerminalOf(t, done) ==
    IF done.threw THEN "Thrown"
    ELSE IF t = "weather"
    THEN (IF "forecast" \in DOMAIN done.value THEN "Success" ELSE "ErrorResult")
    ELSE (IF done.value.exitCode = 0 THEN "Success" ELSE "ErrorResult")

NoReturn == [tool |-> "none"]

\* The thread is free: no spawnSync holds it, and no completion waits for the
\* caller's continuation, which runs before any other callback.
ThreadFree == blockedBy = {} /\ returned = NoReturn

Init ==
    /\ phase = [i \in Inv |-> "Idle"]
    /\ tool = [i \in Inv |-> "none"]
    /\ args = [i \in Inv |-> NoArgs]
    /\ attempts = [i \in Inv |-> 0]
    /\ child = [i \in Inv |-> "none"]
    /\ blockedBy = {}
    /\ returned = NoReturn

\* execute is called and runs to the await of fetch.
WeatherStart(i) ==
    /\ ThreadFree
    /\ phase[i] = "Idle"
    /\ \E a \in WeatherArgs : args' = [args EXCEPT ![i] = a]
    /\ tool' = [tool EXCEPT ![i] = "weather"]
    /\ phase' = [phase EXCEPT ![i] = "InFlight"]
    /\ attempts' = [attempts EXCEPT ![i] = @ + 1]
    /\ UNCHANGED <<child, blockedBy, returned>>

\* The fetch settles and execute runs to its return.
WeatherSettle(i) ==
    /\ ThreadFree
    /\ phase[i] = "InFlight"
    /\ tool[i] = "weather"
    /\ \E up \in Upstreams :
        LET done == WeatherExecute(args[i], up) IN
        /\ phase' = [phase EXCEPT ![i] = TerminalOf("weather", done)]
        /\ returned' = [ id |-> i, tool |-> "weather", args |-> args[i],
                         url |-> BuildUrl(ParseWeatherParams(args[i])),
                         outcome |-> up, threw |-> done.threw, value |-> done.value ]
    /\ args' = [args EXCEPT ![i] = NoArgs]
    /\ UNCHANGED <<tool, attempts, child, blockedBy>>

\* execute is called and enters spawnSync, which holds the thread until the
\* subprocess has exited.
AnalyzeSpawn(i) ==
    /\ ThreadFree
    /\ phase[i] = "Idle"
    /\ \E a \in AnalyzeArgs, c \in {"running", "stuck"} :
        /\ c = "stuck" => a.code = TrapCode
        /\ args' = [args EXCEPT ![i] = a]
        /\ child' = [child EXCEPT ![i] = c]
    /\ tool' = [tool EXCEPT ![i] = "analyze"]
    /\ phase' = [phase EXCEPT ![i] = "InFlight"]
    /\ attempts' = [attempts EXCEPT ![i] = @ + 1]
    /\ blockedBy' = {i}
    /\ UNCHANGED returned

\* spawnSync returns (or throws) and execute runs to its return.
AnalyzeSettle(i) ==
    /\ blockedBy = {i}
    /\ phase[i] = "InFlight"
    /\ tool[i] = "analyze"
    /\ child[i] = "running"
    /\ \E result \in SpawnOutcomes(args[i].code) :
        LET done == AnalyzeExecute(result) IN
        /\ phase' = [phase EXCEPT ![i] = TerminalOf("analyze", done)]
        /\ returned' = [ id |-> i, tool |-> "analyze", args |-> args[i],
                         outcome |-> result, threw |-> done.threw, value |-> done.value ]
    /\ args' = [args EXCEPT ![i] = NoArgs]
    /\ child' = [child EXCEPT ![i] = "none"]
    /\ blockedBy' = {}
    /\ UNCHANGED <<tool, attempts>>

\* The caller (the tool-calling layer awaiting execute) takes the completion.
CallerReceives ==
    /\ returned # NoReturn
    /\ returned' = NoReturn
    /\ UNCHANGED <<phase, tool, args, attempts, child, blockedBy>>

Next ==
    \/ \E i \in Inv :
            \/ WeatherStart(i)
            \/ WeatherSettle(i)
            \/ AnalyzeSpawn(i)
            \/ AnalyzeSettle(i)
    \/ CallerReceives

Spec == Init /\ [][Next]_vars

\* The runtime runs a settled promise's continuation, and a subprocess that
\* has exited lets spawnSync return.
FairSpec ==
    /\ Spec
    /\ \A i \in Inv : WF_vars(WeatherSettle(i)) /\ WF_vars(AnalyzeSettle(i))
    /\ WF_vars(CallerReceives)

\* ------------------------------------------------------------ the claims

RetWeather == returned.tool = "weather"
RetAnalyze == returned.tool = "analyze"

WeatherErrorShapes == {{"error"}, {"error", "status", "statusText", "details"}}
WeatherSuccessShape == {"latitude", "longitude", "forecast_days", "forecast"}
ExecShape == {"stdout", "stderr", "exitCode"}

\* C1: whatever the fetch, the body read, the JSON parse or the subprocess
\* launch ends in, thrown values of any kind included, execute hands its caller
\* a structured result (weather: a success record or an error record; code
\* runner: {stdout, stderr, exitCode}) and no invocation ends by throwing.
C1_NoThrowPastBoundary ==
    /\ \A i \in Inv : phase[i] # "Thrown"
    /\ RetWeather =>
        /\ ~returned.threw
        /\ DOMAIN returned.value \in WeatherErrorShapes \cup {WeatherSuccessShape}
    /\ RetAnalyze =>
        /\ ~returned.threw
        /\ DOMAIN returned.value = ExecShape

\* A weather invocation has ended in an error result and the code runner now
\* returns a result for a spawnSync that threw a value that is no Error.
C1_Witness ==
    /\ \E i \in Inv : tool[i] = "weather" /\ phase[i] = "ErrorResult"
    /\ RetAnalyze
    /\ returned.outcome.threw
    /\ ~returned.outcome.thrown.isError
    /\ ~returned.threw
    /\ returned.value.exitCode = 1

\* The 8-second deadline cancelled the request: the fetch, or the read of a
\* 2xx body, was rejected by the AbortSignal.timeout signal.
DeadlinePassed(up) ==
    \/ up.kind = "reject" /\ up.err \in DeadlineErrors
    \/ up.kind = "response" /\ ResponseOk(up) /\ up.jsonErr \in DeadlineErrors

\* C2: a weather request the deadline cancelled returns the exact timeout
\* message, not the network-or-runtime or unknown-error message.
C2_TimeoutMessage ==
    (RetWeather /\ DeadlinePassed(returned.outcome)) =>
        returned.value = [error |-> TIMEOUT_MESSAGE]

\* A 2xx body that parsed, with a valid date array.
ValidDates(up) ==
    /\ up.kind = "response"
    /\ up.status \in 200..299
    /\ up.jsonErr = NoError
    /\ up.hasDaily
    /\ up.daily["time"].t = "arr"
    /\ \A k \in 1..Len(up.daily["time"].items) : up.daily["time"].items[k].ty = "string"

\* The variables whose array is absent, no array, or not as long as the dates.
Offending(up) ==
    { f \in FieldSet :
        \/ up.daily[f].t # "arr"
        \/ Len(up.daily[f].items) # Len(up.daily["time"].items) }

\* C3: a 2xx response with a valid date array and an offending variable array
\* gives an error record whose message names an offending field, never a
\* success record with a forecast.
C3_MisalignedIsError ==
    (RetWeather /\ ValidDates(returned.outcome) /\ Offending(returned.outcome) # {}) =>
        /\ DOMAIN returned.value = {"error"}
        /\ \E f \in Offending(returned.outcome) :
            returned.value.error =
                "Invalid response format from Open-Meteo API (daily." \o f
                \o " missing or misaligned)"

\* Two arrays are longer than the date array and the error names one of them.
C3_Witness ==
    /\ RetWeather
    /\ ValidDates(returned.outcome)
    /\ Cardinality(Offending(returned.outcome)) = 2
    /\ \A f \in Offending(returned.outcome) :
        /\ returned.outcome.daily[f].t = "arr"
        /\ Len(returned.outcome.daily[f].items) > Len(returned.outcome.daily["time"].items)
    /\ returned.value =
        [error |-> "Invalid response format from Open-Meteo API (daily.precipitation_sum missing or misaligned)"]

\* The output field an upstream variable is reported under.
OutputName(f) ==
    CASE f = "temperature_2m_max" -> "temperature_max"
      [] f = "temperature_2m_min" -> "temperature_min"
      [] f = "precipitation_sum" -> "precipitation"
      [] f = "windspeed_10m_max" -> "windspeed_max"
      [] f = "weathercode" -> "weathercode"

\* C4: a success result's forecast is the index-wise zip of the upstream
\* arrays: one entry per upstream date, in order, entry i holding date[i] and,
\* for exactly the variables the request asked for, the variable's i-th value
\* under its output name, and no other variable.
C4_ForecastIsZipOfRequested ==
    (RetWeather /\ "forecast" \in DOMAIN returned.value) =>
        LET daily == returned.outcome.daily
            forecast == returned.value.forecast
        IN  /\ Len(forecast) = Len(daily["time"].items)
            /\ \A i \in 1..Len(forecast) :
                /\ DOMAIN forecast[i] =
                    {"date"} \cup {OutputName(f) : f \in returned.args.daily}
                /\ forecast[i].date = daily["time"].items[i]
                /\ \A f \in returned.args.daily :
                    forecast[i][OutputName(f)] = daily[f].items[i]

\* A non-2xx response.
HttpError(up) == up.kind = "response" /\ ~(up.status \in 200..299)

\* The body text cut to the excerpt length.
Excerpt(text) ==
    [t |-> "text", v |-> [k \in 1..Min(Len(text), SLICE_LIMIT) |-> text[k]]]

\* The result carries the response's status code and status text.
CarriesStatus(v, up) ==
    /\ DOMAIN v = {"error", "status", "statusText", "details"}
    /\ v.status = up.status
    /\ v.statusText = up.statusText

\* C5 as stated: a non-2xx response gives an error record carrying exactly that
\* status code and status text; details is the parsed body when the body is
\* JSON, the body text cut to 1000 characters when it is not, and absent when
\* the body cannot be read (or there is no body text).
C5_DetailsByBody ==
    (RetWeather /\ HttpError(returned.outcome)) =>
        LET up == returned.outcome IN
        /\ CarriesStatus(returned.value, up)
        /\ returned.value.details =
            IF up.readFails \/ up.text = <<>> THEN Undefined
            ELSE IF ParseJSON(up.text).ok THEN ParseJSON(up.text).value
            ELSE Excerpt(up.text)

\* The content-type header is present and holds "json".
SaysJson(up) ==
    up.contentType # Null /\ \E k \in 1..Len(up.contentType) : up.contentType[k] = "json"

\* C5 amended: a non-2xx response gives an error record carrying exactly that
\* status code and status text; details is the parsed body when the
\* content-type header contains "json" and the body parses as JSON, otherwise
\* the body text cut to 1000 characters, absent when that text is empty, and
\* absent when the body cannot be read.
C5_DetailsByContentType ==
    (RetWeather /\ HttpError(returned.outcome)) =>
        LET up == returned.outcome IN
        /\ CarriesStatus(returned.value, up)
        /\ returned.value.details =
            IF up.readFails THEN Undefined
            ELSE IF SaysJson(up) /\ ParseJSON(up.text).ok THEN ParseJSON(up.text).value
            ELSE IF up.text = <<>> THEN Undefined
            ELSE Excerpt(up.text)

\* A non-2xx body longer than 1000 characters that is no JSON: details is its
\* first 1000 characters.
C5_Witness ==
    /\ RetWeather
    /\ HttpError(returned.outcome)
    /\ ~returned.outcome.readFails
    /\ Len(returned.outcome.text) > SLICE_LIMIT
    /\ ~ParseJSON(returned.outcome.text).ok
    /\ returned.value.details.t = "text"
    /\ Len(returned.value.details.v) = SLICE_LIMIT
    /\ returned.value.status = 503

\* The code runner returned from a spawnSync that reported a launch-level error.
LaunchError == RetAnalyze /\ ~returned.outcome.threw /\ returned.outcome.error.set

\* C6: launch-level failures are classified before the exit status or signal:
\* timeout gives 124 with stderr "Python execution timed out" (never 128, though
\* the killed process has no exit status); interpreter not found gives 127;
\* permission denied gives 126; output over the 1 MiB cap gives 1 with the
\* partial stdout that was captured; any other launch failure gives 1 with the
\* system error code and message in stderr.
C6_LaunchFailureClasses ==
    LaunchError =>
        LET r == returned.outcome
            v == returned.value
        IN  /\ r \in TimedOut =>
                v.exitCode = 124 /\ v.stderr = <<"Python execution timed out">>
            /\ r.error.code = "ENOENT" => v.exitCode = 127
            /\ r.error.code = "EACCES" => v.exitCode = 126
            /\ r \in Overflowed => v.exitCode = 1 /\ v.stdout = r.stdout
            /\ r.error.code = "EAGAIN" =>
                v.exitCode = 1 /\ v.stderr = <<"EAGAIN", ": ">> \o r.error.message

\* The code runner returned for a process that a signal ended, with no
\* launch-level error.
SignalEnded ==
    /\ RetAnalyze
    /\ ~returned.outcome.threw
    /\ ~returned.outcome.error.set
    /\ returned.outcome.status = NullStatus

SignalMessage(sig) == <<"Python process terminated by signal ", sig>>

\* C7 as stated: a process ended by a signal, with no launch-level error, gives
\* exitCode 128, the captured stdout, and as stderr the captured stderr, or the
\* "terminated by signal" message when the captured stderr is empty.
C7_SignalKeepsStderr ==
    SignalEnded =>
        LET r == returned.outcome IN
        /\ returned.value.exitCode = 128
        /\ returned.value.stdout = r.stdout
        /\ returned.value.stderr =
            IF r.stderr = <<>> THEN SignalMessage(r.signal) ELSE r.stderr

\* s is t without its leading and trailing whitespace.
IsTrimOf(s, t) ==
    \E a \in 0..Len(t), b \in 0..Len(t) :
        /\ a + b <= Len(t)
        /\ Len(s) = Len(t) - a - b
        /\ \A k \in 1..Len(s) : s[k] = t[a + k]
        /\ \A k \in 1..a : t[k] \in {" ", "\n", "\t"}
        /\ \A k \in (Len(t) - b + 1)..Len(t) : t[k] \in {" ", "\n", "\t"}
        /\ s # <<>> => s[1] \notin {" ", "\n", "\t"} /\ s[Len(s)] \notin {" ", "\n", "\t"}

\* C7 amended: a process ended by a signal, with no launch-level error, gives
\* exitCode 128, the captured stdout, and as stderr the captured stderr with
\* its leading and trailing whitespace removed, or the "terminated by signal"
\* message when nothing but whitespace was captured.
C7_SignalTrimsStderr ==
    SignalEnded =>
        LET r == returned.outcome IN
        /\ returned.value.exitCode = 128
        /\ returned.value.stdout = r.stdout
        /\ \/ /\ returned.value.stderr # <<>>
              /\ IsTrimOf(returned.value.stderr, r.stderr)
           \/ /\ IsTrimOf(<<>>, r.stderr)
              /\ returned.value.stderr = SignalMessage(r.signal)

\* A process ended by SIGKILL whose stderr ended in a line break: the result's
\* stderr is the text without the line break.
C7_Witness ==
    /\ SignalEnded
    /\ returned.outcome.signal = "SIGKILL"
    /\ returned.outcome.stderr = <<"Traceback", "\n">>
    /\ returned.value.stderr = <<"Traceback">>
    /\ returned.value.stdout = Hello

\* The code runner returned for a process that exited on its own.
Exited ==
    /\ RetAnalyze
    /\ ~returned.outcome.threw
    /\ ~returned.outcome.error.set
    /\ returned.outcome.status # NullStatus

\* C8: a process that exits on its own with an exit status gives exactly its
\* stdout, stderr and exit status, whatever the status (non-zero and the
\* reserved codes 1, 124, 126, 127, 128 included); print("hello") gives
\* {stdout: "hello\n", stderr: "", exitCode: 0}.
C8_ExitPassesThrough ==
    Exited =>
        /\ returned.value =
            [ stdout |-> returned.outcome.stdout,
              stderr |-> returned.outcome.stderr,
              exitCode |-> returned.outcome.status ]
        /\ returned.args.code = HelloCode =>
            returned.value = [stdout |-> <<"hello", "\n">>, stderr |-> <<>>, exitCode |-> 0]

\* A process exited with status 128 and a stderr ending in a line break: both
\* come back as they are.
C8_Witness ==
    /\ Exited
    /\ returned.outcome.status = 128
    /\ returned.outcome.stderr = <<"Traceback", "\n">>
    /\ returned.value.exitCode = 128
    /\ returned.value.stderr = <<"Traceback", "\n">>

\* C9: each invocation goes Idle -> InFlight -> Success or ErrorResult: it
\* makes exactly one outbound attempt (one fetch or one spawn) and never another
\* one, a terminal state is never left, and an invocation in flight always
\* eventually reaches a terminal result.
C9_OneAttemptThenTerminal ==
    /\ [](\A i \in Inv : attempts[i] = IF phase[i] = "Idle" THEN 0 ELSE 1)
    /\ [][\A i \in Inv : phase[i] \in Terminal => phase'[i] = phase[i]]_vars
    /\ \A i \in Inv : (phase[i] = "InFlight") ~> (phase[i] \in {"Success", "ErrorResult"})

\* C10: invocations are independent and run in parallel: while one invocation
\* is in flight, another one can start, and another one in flight whose fetch
\* has settled can go on.
C10_ParallelProgress ==
    \A i \in Inv : \A j \in Inv \ {i} :
        (phase[i] = "InFlight" /\ returned = NoReturn) =>
            /\ phase[j] = "Idle" => ENABLED WeatherStart(j) /\ ENABLED AnalyzeSpawn(j)
            /\ (phase[j] = "InFlight" /\ tool[j] = "weather") => ENABLED WeatherSettle(j)

====
